---- MODULE Spec2Model ----
(***************************************************************************)
(* A model of the study-progress dashboard (src/Dashboard/dashboard.py):   *)
(* the module lifecycle, the snapshot aggregation, the persistence round   *)
(* trip with ID repair, and the two mutating menu operations.              *)
(*                                                                         *)
(* Encoding.  An Optional value is a sequence of length at most one:       *)
(* None is <<>> and a present value v is <<v>>.  A JSON object is a        *)
(* function from its keys, so an absent key is a key outside its DOMAIN    *)
(* and a null is the value None.  Grades and the GPA are fixed-point       *)
(* numbers in hundredths (2.0 is 200, 2.33 is 233).                        *)
(***************************************************************************)
EXTENDS Integers, Sequences, FiniteSets, TLC

VARIABLES program, file, last

vars == <<program, file, last>>

None == <<>>
Some(v) == <<v>>
Val(o) == o[1]

\* dict.get(key, default)
Get(d, k, default) == IF k \in DOMAIN d THEN d[k] ELSE default

RECURSIVE SeqSum(_)
SeqSum(s) == IF s = <<>> THEN 0 ELSE Head(s) + SeqSum(Tail(s))

RECURSIVE Flatten(_)
Flatten(ss) == IF ss = <<>> THEN <<>> ELSE Head(ss) \o Flatten(Tail(ss))

SetMax(S) == CHOOSE x \in S : \A y \in S : y <= x

\* round(n / d) in hundredths: the nearest whole number, a tie going to the even
\* neighbour (on floats a tie goes to whichever neighbour the binary value is
\* nearer to; the properties below accept either)
RoundDiv(n, d) ==
  LET q == n \div d
      r == n % d
  IN  IF 2 * r < d THEN q
      ELSE IF 2 * r > d THEN q + 1
      ELSE IF q % 2 = 0 THEN q ELSE q + 1

(***************************************************************************)
(* ModuleStatus                                                            *)
(***************************************************************************)
PLANNED == "PLANNED"
ENROLLED == "ENROLLED"
COMPLETED == "COMPLETED"
RECOGNIZED == "RECOGNIZED"

ModuleStatus == {PLANNED, ENROLLED, COMPLETED, RECOGNIZED}

\* ModuleStatus.<member>.value
StatusValue(st) ==
  CASE st = PLANNED -> "planned"
    [] st = ENROLLED -> "enrolled"
    [] st = COMPLETED -> "completed"
    [] st = RECOGNIZED -> "recognized"

StatusValues == {StatusValue(st) : st \in ModuleStatus}

\* ModuleStatus(value), for a value among StatusValues
StatusOfValue(v) == CHOOSE st \in ModuleStatus : StatusValue(st) = v

(***************************************************************************)
(* Assessment and Module                                                   *)
(***************************************************************************)
NewAssessment(name, max_points) ==
  [name |-> name, max_points |-> max_points, passed |-> FALSE, grade |-> None]

\* record_result testing the grade for truth: the grade 0 reads as no grade
record_result_truthy(a, passed, grade) ==
  [a EXCEPT !.passed = passed,
            !.grade = IF passed /\ grade # None /\ grade # Some(0) THEN grade ELSE None]

\* record_result writing the grade only when one is given: an old grade survives
record_result_keep_grade(a, passed, grade) ==
  [a EXCEPT !.passed = passed,
            !.grade = IF passed /\ grade # None THEN grade
                      ELSE IF passed THEN a.grade ELSE None]

record_result(a, passed, grade) ==
  [a EXCEPT !.passed = passed,
            !.grade = IF passed /\ grade # None THEN grade ELSE None]

NewModule(id, code, title, ects, assessment) ==
  [id |-> id, code |-> code, title |-> title, ects |-> ects,
   assessment |-> assessment, status |-> PLANNED]

\* an enrolment that also clears the result
enroll_clears_result(m) ==
  [m EXCEPT !.assessment = record_result(m.assessment, FALSE, None),
            !.status = ENROLLED]

enroll(m) == [m EXCEPT !.status = ENROLLED]

\* complete setting the status without recording the result
complete_status_only(m, grade) == [m EXCEPT !.status = COMPLETED]

complete(m, grade) ==
  [m EXCEPT !.assessment = record_result(m.assessment, TRUE, Some(grade)),
            !.status = COMPLETED]

recognize(m) ==
  [m EXCEPT !.assessment = record_result(m.assessment, TRUE, None),
            !.status = RECOGNIZED]

\* a reset of the status alone
reset_status_only(m) == [m EXCEPT !.status = PLANNED]

\* a reset that keeps the grade
reset_keeps_grade(m) ==
  [m EXCEPT !.assessment.passed = FALSE, !.status = PLANNED]

reset(m) ==
  [m EXCEPT !.assessment = record_result(m.assessment, FALSE, None),
            !.status = PLANNED]

(***************************************************************************)
(* Semester and StudyProgram                                               *)
(***************************************************************************)
\* Semester.get_module: the first module of the semester with this code
get_module(sem, code) ==
  LET hits == {i \in 1..Len(sem.modules) : sem.modules[i].code = code}
  IN  IF hits = {} THEN None
      ELSE Some(CHOOSE i \in hits : \A j \in hits : i <= j)

\* a lookup that searches the last semester only
find_module_last_semester(p, code) ==
  LET s == Len(p.semesters)
  IN  IF s = 0 \/ get_module(p.semesters[s], code) = None THEN None
      ELSE Some(<<s, Val(get_module(p.semesters[s], code))>>)

\* StudyProgram.find_module: position <<s, i>> of the first hit in semester order
find_module(p, code) ==
  LET hits == {s \in 1..Len(p.semesters) : get_module(p.semesters[s], code) # None}
  IN  IF hits = {} THEN None
      ELSE LET s == CHOOSE s \in hits : \A t \in hits : s <= t
           IN  Some(<<s, Val(get_module(p.semesters[s], code))>>)

all_modules(p) == Flatten([s \in 1..Len(p.semesters) |-> p.semesters[s].modules])

\* the positions <<s, i>> of the modules, in the order of all_modules
Positions(p) ==
  Flatten([s \in 1..Len(p.semesters) |->
             [i \in 1..Len(p.semesters[s].modules) |-> <<s, i>>]])

ModuleAt(p, pos) == p.semesters[pos[1]].modules[pos[2]]

IsPassedStatus(m) == m.status \in {COMPLETED, RECOGNIZED}

\* the grade average without the ects as weights
_calculate_gpa_unweighted(completed_modules) ==
  LET graded == SelectSeq(completed_modules, LAMBDA m : m.assessment.grade # None)
      grade_sum == SeqSum([i \in 1..Len(graded) |-> Val(graded[i].assessment.grade)])
  IN  IF graded = <<>> THEN None ELSE Some(RoundDiv(grade_sum, Len(graded)))

\* sum(m.ects for m in modules)
EctsOf(modules) == SeqSum([i \in 1..Len(modules) |-> modules[i].ects])

_calculate_gpa(completed_modules) ==
  LET graded == SelectSeq(completed_modules, LAMBDA m : m.assessment.grade # None)
      weighted_sum == SeqSum([i \in 1..Len(graded) |->
                                Val(graded[i].assessment.grade) * graded[i].ects])
      ects_sum == EctsOf(graded)
  IN  IF graded = <<>> THEN None
      ELSE IF ects_sum # 0 THEN Some(RoundDiv(weighted_sum, ects_sum)) ELSE None

\* ects_completed without the recognized modules
EctsCompleted_completed_only(completed, recognized) ==
  SeqSum([i \in 1..Len(completed) |-> completed[i].ects])

\* ects_completed: the recognized modules count as well
EctsCompleted(completed, recognized) == EctsOf(completed \o recognized)

\* completed_semesters without the test that the semester has modules
CompletedSemesters_counts_empty(p) ==
  Cardinality({s \in 1..Len(p.semesters) :
                 \A i \in 1..Len(p.semesters[s].modules) :
                   p.semesters[s].modules[i].status \in {"COMPLETED", "RECOGNIZED"}})

\* completed_semesters: the semesters with modules, all of them completed or recognized
CompletedSemesters(p) ==
  Cardinality({s \in 1..Len(p.semesters) :
                 /\ p.semesters[s].modules # <<>>
                 /\ \A i \in 1..Len(p.semesters[s].modules) :
                      IsPassedStatus(p.semesters[s].modules[i])})

\* a status list that takes a module with a passed, graded assessment for Completed
Bucket_by_result(modules, status) ==
  IF status = COMPLETED
  THEN SelectSeq(modules, LAMBDA m : m.status = COMPLETED
                                       \/ (m.assessment.passed /\ m.assessment.grade # None))
  ELSE SelectSeq(modules, LAMBDA m : m.status = status)

\* a status list with the newest module first
Bucket_newest_first(modules, status) ==
  LET hits == SelectSeq(modules, LAMBDA m : m.status = status)
  IN  [i \in 1..Len(hits) |-> hits[Len(hits) + 1 - i]]

\* [m for m in modules if m.status == status]
Bucket(modules, status) == SelectSeq(modules, LAMBDA m : m.status = status)

snapshot(p) ==
  LET modules == all_modules(p)
      completed == Bucket(modules, COMPLETED)
      enrolled == Bucket(modules, ENROLLED)
      planned == Bucket(modules, PLANNED)
      recognized == Bucket(modules, RECOGNIZED)
  IN  [modules |-> modules,
       completed_modules |-> completed,
       enrolled_modules |-> enrolled,
       planned_modules |-> planned,
       recognized_modules |-> recognized,
       ects_completed |-> EctsCompleted(completed, recognized),
       ects_enrolled |-> EctsOf(enrolled),
       total_ects |-> p.total_ects,
       current_gpa |-> _calculate_gpa(completed),
       completed_semesters |-> CompletedSemesters(p)]

(***************************************************************************)
(* Goals                                                                   *)
(***************************************************************************)
DurationGoal(planned_semesters, description) ==
  [kind |-> "DurationGoal", planned_semesters |-> planned_semesters,
   description |-> description]

GPAgoal(max_gpa, description) ==
  [kind |-> "GPAgoal", max_gpa |-> max_gpa, description |-> description]

\* A float that is a quotient of two numbers is the pair <<numerator, denominator>>
\* with a positive denominator; a call that can raise returns Ok(value) or
\* Raise(exception).
Ok(v) == [ok |-> TRUE, value |-> v]
Raise(e) == [ok |-> FALSE, error |-> e]

Zero == <<0, 1>>
One == <<1, 1>>

Abs(n) == IF n < 0 THEN 0 - n ELSE n

\* ratio = n / d, then max(0.0, min(1.0, ratio))
ClampedRatio(n, d) ==
  IF d = 0 THEN Raise("ZeroDivisionError")
  ELSE IF n * d <= 0 THEN Ok(Zero)
  ELSE IF Abs(n) >= Abs(d) THEN Ok(One)
  ELSE Ok(<<Abs(n), Abs(d)>>)

\* DurationGoal.is_met with < in the place of <=
DurationGoal_is_met_strict(goal, context) ==
  context.completed_semesters < goal.planned_semesters

DurationGoal_is_met(goal, context) ==
  context.completed_semesters <= goal.planned_semesters

DurationGoal_progress(goal, context) ==
  IF context.completed_semesters = 0 \/ goal.planned_semesters = 0 THEN Ok(Zero)
  ELSE ClampedRatio(context.completed_semesters, goal.planned_semesters)

GPAgoal_is_met(goal, context) ==
  context.current_gpa # None /\ Val(context.current_gpa) <= goal.max_gpa

\* GPAgoal.progress without the test for an average of 0
GPAgoal_progress_no_zero_test(goal, context) ==
  IF context.current_gpa = None THEN Ok(Zero)
  ELSE ClampedRatio(goal.max_gpa, Val(context.current_gpa))

GPAgoal_progress(goal, context) ==
  IF context.current_gpa = None \/ Val(context.current_gpa) = 0 THEN Ok(Zero)
  ELSE ClampedRatio(goal.max_gpa, Val(context.current_gpa))

\* the method of the goal's class
is_met(goal, context) ==
  IF goal.kind = "DurationGoal" THEN DurationGoal_is_met(goal, context)
  ELSE GPAgoal_is_met(goal, context)

progress(goal, context) ==
  IF goal.kind = "DurationGoal" THEN DurationGoal_progress(goal, context)
  ELSE GPAgoal_progress(goal, context)

(***************************************************************************)
(* DashboardViewModel: what the overview shows, before it is formatted     *)
(***************************************************************************)
\* the filled cells of the bar and the percentage; None when total_ects is 0
progress_bar(p, width) ==
  LET context == snapshot(p)
  IN  IF context.total_ects = 0 THEN None
      ELSE Some([filled |-> (context.ects_completed * width) \div context.total_ects,
                 percent |-> RoundDiv(100 * context.ects_completed, context.total_ects)])

\* one line for each goal: the description, the percentage and the word for is_met
goal_descriptions(p) ==
  LET context == snapshot(p)
  IN  [i \in 1..Len(p.goals) |->
         LET ratio == progress(p.goals[i], context)
         IN  [description |-> p.goals[i].description,
              percent |-> IF ratio.ok
                          THEN Some(RoundDiv(100 * ratio.value[1], ratio.value[2]))
                          ELSE None,
              met |-> IF is_met(p.goals[i], context) THEN "erfuellt" ELSE "offen"]]

bucket_counts(p) ==
  LET context == snapshot(p)
  IN  [Abgeschlossen |-> Len(context.completed_modules),
       Eingeschrieben |-> Len(context.enrolled_modules),
       Geplant |-> Len(context.planned_modules),
       Anerkannt |-> Len(context.recognized_modules)]

\* the average that is shown, or None for the line that says there is no grade yet
grade_summary(p) == snapshot(p).current_gpa

(***************************************************************************)
(* PersistenceService.  A call that can raise returns Ok(value) or         *)
(* Raise(kind of exception).                                               *)
(***************************************************************************)
\* the first exception raised while the items of a list are processed in order
FirstError(results) ==
  results[CHOOSE i \in 1..Len(results) :
            /\ ~results[i].ok
            /\ \A j \in 1..(i - 1) : results[j].ok]

AllOk(results) == \A i \in 1..Len(results) : results[i].ok

Values(results) == [i \in 1..Len(results) |-> results[i].value]

_serialize_goal(goal) ==
  IF goal.kind = "DurationGoal"
  THEN [type |-> "duration", description |-> goal.description,
        planned_semesters |-> goal.planned_semesters]
  ELSE [type |-> "gpa", description |-> goal.description, max_gpa |-> goal.max_gpa]

_deserialize_goal(payload) ==
  IF "type" \in DOMAIN payload /\ payload["type"] = "duration"
  THEN IF "planned_semesters" \in DOMAIN payload
       THEN Ok(DurationGoal(payload["planned_semesters"],
                            Get(payload, "description",
                                "Studium in geplanter Zeit abschliessen")))
       ELSE Raise("KeyError")
  ELSE IF "type" \in DOMAIN payload /\ payload["type"] = "gpa"
  THEN IF "max_gpa" \in DOMAIN payload
       THEN Ok(GPAgoal(payload["max_gpa"],
                       Get(payload, "description", "Notenschnitt halten")))
       ELSE Raise("KeyError")
  ELSE Raise("ValueError")

\* the assessment written without its grade
AssessmentDict_no_grade(a) ==
  [name |-> a.name, max_points |-> a.max_points, passed |-> a.passed]

\* asdict(module.assessment)
AssessmentDict(a) ==
  [name |-> a.name, max_points |-> a.max_points, passed |-> a.passed, grade |-> a.grade]

ModulePayload(m) ==
  [id |-> m.id, code |-> m.code, title |-> m.title, ects |-> m.ects,
   status |-> StatusValue(m.status), assessment |-> AssessmentDict(m.assessment)]

SemesterPayload(sem) ==
  [semester |-> Some(sem.semester),
   modules |-> [i \in 1..Len(sem.modules) |-> ModulePayload(sem.modules[i])]]

\* the payload that save writes to the file
save(p) ==
  [name |-> p.name,
   total_ects |-> p.total_ects,
   goals |-> [i \in 1..Len(p.goals) |-> _serialize_goal(p.goals[i])],
   semesters |-> [s \in 1..Len(p.semesters) |-> SemesterPayload(p.semesters[s])]]

\* a module entry whose unknown status is read as Planned
LoadModule_default_status(module_payload) ==
  LET assessment_data == module_payload["assessment"]
  IN  Ok([id |-> Get(module_payload, "id", None),
          code |-> module_payload["code"],
          title |-> module_payload["title"],
          ects |-> module_payload["ects"],
          assessment |-> [name |-> assessment_data["name"],
                          max_points |-> assessment_data["max_points"],
                          passed |-> Get(assessment_data, "passed", FALSE),
                          grade |-> Get(assessment_data, "grade", None)],
          status |-> IF module_payload["status"] \in StatusValues
                     THEN StatusOfValue(module_payload["status"]) ELSE PLANNED])

\* the body of load's inner loop: one module entry
LoadModule(module_payload) ==
  LET assessment_data == module_payload["assessment"]
      assessment == [name |-> assessment_data["name"],
                     max_points |-> assessment_data["max_points"],
                     passed |-> Get(assessment_data, "passed", FALSE),
                     grade |-> Get(assessment_data, "grade", None)]
  IN  IF module_payload["status"] \notin StatusValues THEN Raise("ValueError")
      ELSE Ok([id |-> Get(module_payload, "id", None),
               code |-> module_payload["code"],
               title |-> module_payload["title"],
               ects |-> module_payload["ects"],
               assessment |-> assessment,
               status |-> StatusOfValue(module_payload["status"])])

\* a semester entry read by its current key only
LoadSemester_no_legacy(semester_payload) ==
  LET sem_value == Get(semester_payload, "semester", None)
      modules == [i \in 1..Len(semester_payload["modules"]) |->
                    LoadModule(semester_payload["modules"][i])]
  IN  IF sem_value = None THEN Raise("KeyError")
      ELSE IF ~AllOk(modules) THEN FirstError(modules)
      ELSE Ok([semester |-> Val(sem_value), modules |-> Values(modules)])

\* the body of load's outer loop: one semester entry
LoadSemester(semester_payload) ==
  LET sem_value == Get(semester_payload, "semester", Get(semester_payload, "number", None))
      modules == [i \in 1..Len(semester_payload["modules"]) |->
                    LoadModule(semester_payload["modules"][i])]
  IN  IF sem_value = None THEN Raise("KeyError")
      ELSE IF ~AllOk(modules) THEN FirstError(modules)
      ELSE Ok([semester |-> Val(sem_value), modules |-> Values(modules)])

\* the loop of _ensure_module_ids without the increment of next_id
AssignIds_same_id(modules, next_id) ==
  [i \in 1..Len(modules) |->
     IF modules[i].id = None THEN [modules[i] EXCEPT !.id = Some(next_id)] ELSE modules[i]]

RECURSIVE AssignIds(_, _)
\* the loop of _ensure_module_ids over the flattened modules, from next_id on
AssignIds(modules, next_id) ==
  IF modules = <<>> THEN <<>>
  ELSE IF Head(modules).id = None
  THEN <<[Head(modules) EXCEPT !.id = Some(next_id)]>> \o AssignIds(Tail(modules), next_id + 1)
  ELSE <<Head(modules)>> \o AssignIds(Tail(modules), next_id)

\* how many modules precede semester s in all_modules
Offset(p, s) == SeqSum([t \in 1..(s - 1) |-> Len(p.semesters[t].modules)])

\* the greatest existing id itself, or 1
NextId_no_increment(modules) ==
  LET used_ids == {Val(modules[i].id) : i \in {j \in 1..Len(modules) : modules[j].id # None}}
  IN  IF used_ids # {} THEN SetMax(used_ids) ELSE 1

\* max(existing ids) + 1, or 1: _ensure_module_ids and _add_module compute it alike
NextId(modules) ==
  LET used_ids == {Val(modules[i].id) : i \in {j \in 1..Len(modules) : modules[j].id # None}}
  IN  IF used_ids # {} THEN SetMax(used_ids) + 1 ELSE 1

_ensure_module_ids(p) ==
  LET modules == all_modules(p)
      repaired == AssignIds(modules, NextId(modules))
  IN  [p EXCEPT !.semesters =
         [s \in 1..Len(p.semesters) |->
            [p.semesters[s] EXCEPT !.modules =
               [i \in 1..Len(p.semesters[s].modules) |-> repaired[Offset(p, s) + i]]]]]

load(payload) ==
  LET goals == [i \in 1..Len(Get(payload, "goals", <<>>)) |->
                  _deserialize_goal(payload["goals"][i])]
      semesters == [s \in 1..Len(payload["semesters"]) |->
                      LoadSemester(payload["semesters"][s])]
  IN  IF ~AllOk(goals) THEN FirstError(goals)
      ELSE IF ~AllOk(semesters) THEN FirstError(semesters)
      ELSE Ok(_ensure_module_ids([name |-> payload["name"],
                                  total_ects |-> payload["total_ects"],
                                  semesters |-> Values(semesters),
                                  goals |-> Values(goals)]))

(***************************************************************************)
(* The data files the program is started on.  Each is a payload load       *)
(* accepts.                                                                *)
(***************************************************************************)
AssessmentEntry(passed, grade) ==
  [name |-> "Klausur", max_points |-> 100, passed |-> passed, grade |-> grade]

\* a module entry of a file written by save: the key "id" is present (a number or null)
ModuleEntry(id, code, ects, status, passed, grade) ==
  [id |-> id, code |-> code, title |-> "Titel", ects |-> ects, status |-> status,
   assessment |-> AssessmentEntry(passed, grade)]

\* a module entry of an old file: no key "id"
LegacyModuleEntry(code, ects, status, passed, grade) ==
  [code |-> code, title |-> "Titel", ects |-> ects, status |-> status,
   assessment |-> AssessmentEntry(passed, grade)]

GoalEntries ==
  << [type |-> "duration", description |-> "In der Zeit bleiben", planned_semesters |-> 3],
     [type |-> "gpa", description |-> "Schnitt halten", max_gpa |-> 250] >>

\* current format: two graded Completed modules, one without id; semester 2 is empty
FileCurrent ==
  [name |-> "Informatik", total_ects |-> 180, goals |-> GoalEntries,
   semesters |->
     << [semester |-> Some(1),
         modules |-> << ModuleEntry(Some(5), "A", 10, "completed", TRUE, Some(200)),
                        LegacyModuleEntry("B", 5, "completed", TRUE, Some(300)) >>],
        [semester |-> Some(2), modules |-> <<>>] >>]

\* legacy format: the term index is "number", no goals, no id; the one module was
\* edited by hand: 0 ects, and a grade although it is only planned
FileLegacy ==
  [name |-> "Informatik", total_ects |-> 180,
   semesters |->
     << [number |-> Some(1),
         modules |-> << LegacyModuleEntry("A", 0, "planned", TRUE, Some(300)) >>],
        [number |-> Some(2), modules |-> <<>>] >>]

\* a new program: one semester and no module yet
FileNew ==
  [name |-> "Informatik", total_ects |-> 180, goals |-> GoalEntries,
   semesters |-> << [semester |-> Some(1), modules |-> <<>>] >>]

InitFiles == {FileCurrent, FileLegacy}

\* how a module entry of a generated file names its id: no key, null, or a number
IdForms == {[key |-> FALSE, id |-> None], [key |-> TRUE, id |-> None],
            [key |-> TRUE, id |-> Some(5)], [key |-> TRUE, id |-> Some(7)]}

FormedModuleEntry(form, code) ==
  IF form.key THEN ModuleEntry(form.id, code, 5, "planned", FALSE, None)
  ELSE LegacyModuleEntry(code, 5, "planned", FALSE, None)

\* the term index under the current or the legacy key
SemesterEntry(key, n, modules) ==
  IF key = "semester" THEN [semester |-> Some(n), modules |-> modules]
  ELSE [number |-> Some(n), modules |-> modules]

\* four modules in two semesters, with every mix of id forms, in both formats
FormedFile(forms, key) ==
  [name |-> "Informatik", total_ects |-> 180, goals |-> GoalEntries,
   semesters |->
     << SemesterEntry(key, 1, << FormedModuleEntry(forms[1], "A"),
                                 FormedModuleEntry(forms[2], "B") >>),
        SemesterEntry(key, 2, << FormedModuleEntry(forms[3], "C"),
                                 FormedModuleEntry(forms[4], "D") >>) >>]

LoadFiles ==
  {FormedFile(forms, key) : forms \in [1..4 -> IdForms], key \in {"semester", "number"}}

\* how a semester entry names its term index: under the current key, under the
\* legacy key, under none, under both, or with a null under the current key
SemesterForms == {"semester", "number", "neither", "both", "null", "null_number"}

VariedSemesterEntry(form, n, modules) ==
  CASE form = "semester" -> [semester |-> Some(n), modules |-> modules]
    [] form = "number" -> [number |-> Some(n), modules |-> modules]
    [] form = "neither" -> [modules |-> modules]
    [] form = "both" -> [semester |-> Some(n), number |-> Some(n + 5), modules |-> modules]
    [] form = "null" -> [semester |-> None, modules |-> modules]
    [] form = "null_number" -> [semester |-> None, number |-> Some(n), modules |-> modules]

\* the type tags of a goal entry; the empty string stands for an entry without "type"
GoalTags == {"duration", "gpa", "bonus", ""}

TaggedGoalEntry(tag) ==
  IF tag = ""
  THEN [description |-> "Ziel", planned_semesters |-> 3, max_gpa |-> 250]
  ELSE [type |-> tag, description |-> "Ziel", planned_semesters |-> 3, max_gpa |-> 250]

\* the status strings of a module entry: three of the enumeration, and one that is not
FileStatuses == {"planned", "completed", "recognized", "done"}

\* two semesters with a module each; the entries vary in form, tag and status
VariedFile(form1, form2, tag, status) ==
  [name |-> "Informatik", total_ects |-> 180,
   goals |-> << GoalEntries[1], TaggedGoalEntry(tag) >>,
   semesters |->
     << VariedSemesterEntry(form1, 1,
          << ModuleEntry(Some(1), "A", 5, status, status # "planned", None) >>),
        VariedSemesterEntry(form2, 2,
          << ModuleEntry(Some(2), "B", 5, "planned", FALSE, None) >>) >>]

\* files load accepts and files it rejects
VariedFiles ==
  {VariedFile(form1, form2, tag, status) :
     form1 \in SemesterForms, form2 \in SemesterForms,
     tag \in GoalTags, status \in FileStatuses}

\* the state of a module entry: its status and its result
ResultForms ==
  {[status |-> "planned", passed |-> FALSE, grade |-> None],
   [status |-> "recognized", passed |-> TRUE, grade |-> None],
   [status |-> "completed", passed |-> TRUE, grade |-> None],
   [status |-> "completed", passed |-> TRUE, grade |-> Some(0)],
   [status |-> "completed", passed |-> TRUE, grade |-> Some(200)],
   [status |-> "completed", passed |-> TRUE, grade |-> Some(300)]}

PlannedSemesters == 0..3
MaxGpas == {0, 150, 250}

\* three semesters with one module of 5 ects each, a duration goal and a grade goal
GoalFile(planned_semesters, max_gpa, forms) ==
  [name |-> "Informatik", total_ects |-> 180,
   goals |-> << [type |-> "duration", description |-> "In der Zeit bleiben",
                 planned_semesters |-> planned_semesters],
                [type |-> "gpa", description |-> "Schnitt halten", max_gpa |-> max_gpa] >>,
   semesters |->
     [s \in 1..3 |->
        [semester |-> Some(s),
         modules |-> << ModuleEntry(Some(s), <<"A", "B", "C">>[s], 5, forms[s].status,
                                    forms[s].passed, forms[s].grade) >>]]]

GoalFiles ==
  {GoalFile(planned_semesters, max_gpa, forms) :
     planned_semesters \in PlannedSemesters, max_gpa \in MaxGpas,
     forms \in [1..3 -> ResultForms]}


(***************************************************************************)
(* DashboardCLI.  last records the operation that ran last: which it was,  *)
(* how it ended, the module it acted on, the Module method it called (the *)
(* empty string when none) and the grade it was given.                     *)
(***************************************************************************)
MaxModules == 2

Last(op, outcome, pos, call, grade) ==
  [op |-> op, outcome |-> outcome, pos |-> pos, call |-> call, grade |-> grade]

\* the program with the module at pos replaced by m
WithModule(p, pos, m) ==
  [p EXCEPT !.semesters[pos[1]].modules[pos[2]] = m]

\* str.upper() on the codes that are typed
Upper(raw) ==
  CASE raw = "a" -> "A"
    [] raw = "b" -> "B"
    [] raw = "c" -> "C"
    [] OTHER -> raw

\* _build_indexes: id_index.get(module_id), the last module that carries the id
IdIndexGet(p, module_id) ==
  LET positions == Positions(p)
      hits == {k \in 1..Len(positions) : ModuleAt(p, positions[k]).id = Some(module_id)}
  IN  IF hits = {} THEN None
      ELSE Some(positions[CHOOSE k \in hits : \A j \in hits : j <= k])

\* the answers typed at the first prompt of _update_module: "0", an id, a code
Digits(n) == [digits |-> TRUE, n |-> n]
Text(s) == [digits |-> FALSE, text |-> s]

RawInputs(p) ==
  LET modules == all_modules(p)
  IN  {Digits(0), Digits(NextId(modules)), Text("a"), Text("ZZ")}
        \cup {Digits(Val(modules[i].id)) : i \in 1..Len(modules)}

\* the module the first answer selects: by id when the answer is a number, else by code
SelectModule(p, raw) ==
  IF raw.digits THEN IdIndexGet(p, raw.n) ELSE find_module(p, Upper(raw.text))

GradeNumbers == {0, 200}

\* the answers typed at the grade prompt: "0", a number, something else
GradeInputs ==
  {[kind |-> "zero"], [kind |-> "text"]}
    \cup {[kind |-> "number", value |-> g] : g \in GradeNumbers}

StatusChoices == {"0", "1", "2", "3", "4", "5"}

\* a handler that ends early and still writes the data file
Unchanged_saves(op, outcome) ==
  /\ last' = Last(op, outcome, None, "", None)
  /\ file' = save(program)
  /\ UNCHANGED program

Unchanged(op, outcome) ==
  /\ last' = Last(op, outcome, None, "", None)
  /\ UNCHANGED <<program, file>>

\* the module mutated and the data file left as it was
Updated_no_save(pos, m, call, grade) ==
  /\ program' = WithModule(program, pos, m)
  /\ UNCHANGED file
  /\ last' = Last("update", "ok", Some(pos), call, grade)

\* the module mutated, then PersistenceService.save
Updated(pos, m, call, grade) ==
  /\ program' = WithModule(program, pos, m)
  /\ file' = save(program')
  /\ last' = Last("update", "ok", Some(pos), call, grade)

_update_module ==
  \E raw \in RawInputs(program) :
    LET module == SelectModule(program, raw)
    IN  \/ /\ raw = Digits(0)
           /\ Unchanged("update", "cancel")
        \/ /\ raw # Digits(0)
           /\ module = None
           /\ Unchanged("update", "error")
        \/ /\ raw # Digits(0)
           /\ module # None
           /\ \E status_choice \in StatusChoices :
                LET pos == Val(module)
                    m == ModuleAt(program, pos)
                IN  \/ /\ status_choice = "0"
                       /\ Unchanged("update", "cancel")
                    \/ /\ status_choice = "5"
                       /\ Unchanged("update", "error")
                    \/ /\ status_choice = "1"
                       /\ Updated(pos, reset(m), "reset", None)
                    \/ /\ status_choice = "2"
                       /\ Updated(pos, enroll(m), "enroll", None)
                    \/ /\ status_choice = "3"
                       /\ \E grade_input \in GradeInputs :
                            \/ /\ grade_input.kind = "zero"
                               /\ Unchanged("update", "cancel")
                            \/ /\ grade_input.kind = "text"
                               /\ Unchanged("update", "error")
                            \/ /\ grade_input.kind = "number"
                               /\ Updated(pos, complete(m, grade_input.value), "complete",
                                          Some(grade_input.value))
                    \/ /\ status_choice = "4"
                       /\ Updated(pos, recognize(m), "recognize", None)

\* a numeric prompt answered with the number n ("0" is Number(0)), or with other text
Number(n) == [kind |-> "number", value |-> n]
NotANumber == [kind |-> "text"]

\* answers that pass every prompt of _add_module on a program without a module C
GoodAnswers ==
  [semester |-> Number(1), code |-> "c", title |-> "Titel", ects |-> Number(5),
   name |-> "Klausur", max_points |-> Number(100)]

\* the answers typed at the six prompts of _add_module
AddInputs ==
  {[GoodAnswers EXCEPT !.semester = x] : x \in {Number(0), Number(2), Number(9), NotANumber}}
    \cup {[GoodAnswers EXCEPT !.code = x] : x \in {"0", "", "A", "c"}}
    \cup {[GoodAnswers EXCEPT !.title = x] : x \in {"0", ""}}
    \cup {[GoodAnswers EXCEPT !.ects = x] : x \in {Number(0), Number(0 - 1), NotANumber}}
    \cup {[GoodAnswers EXCEPT !.name = x] : x \in {"0"}}
    \cup {[GoodAnswers EXCEPT !.code = "b", !.ects = Number(10), !.name = ""]}
    \cup {[GoodAnswers EXCEPT !.max_points = x] :
            x \in {Number(0), Number(0 - 1), NotANumber}}

\* Semester.add_module on the semester at index s
add_module(p, s, module) ==
  [p EXCEPT !.semesters[s].modules = Append(@, module)]

\* _add_module up to the save: how it ends, and the program it leaves
AddResult(p, in) ==
  LET stop(outcome) == [outcome |-> outcome, program |-> p, pos |-> None]
      hits == {s \in 1..Len(p.semesters) :
                 in.semester.kind = "number" /\ p.semesters[s].semester = in.semester.value}
      code == Upper(in.code)
      assessment_name == IF in.name = "" THEN "Pruefungsleistung" ELSE in.name
  IN  IF in.semester = Number(0) THEN stop("cancel")
      ELSE IF in.semester.kind = "text" THEN stop("error")
      ELSE IF hits = {} THEN stop("error")
      ELSE IF code = "0" THEN stop("cancel")
      ELSE IF code = "" THEN stop("error")
      ELSE IF find_module(p, code) # None THEN stop("error")
      ELSE IF in.title = "0" THEN stop("cancel")
      ELSE IF in.title = "" THEN stop("error")
      ELSE IF in.ects = Number(0) THEN stop("cancel")
      ELSE IF in.ects.kind = "text" THEN stop("error")
      ELSE IF in.ects.value <= 0 THEN stop("error")
      ELSE IF in.name = "0" THEN stop("cancel")
      ELSE IF in.max_points = Number(0) THEN stop("cancel")
      ELSE IF in.max_points.kind = "text" THEN stop("error")
      ELSE IF in.max_points.value <= 0 THEN stop("error")
      ELSE LET s == CHOOSE s \in hits : \A t \in hits : s <= t
               new_id == NextId(all_modules(p))
               module == NewModule(Some(new_id), code, in.title, in.ects.value,
                                   NewAssessment(assessment_name, in.max_points.value))
           IN  [outcome |-> "ok",
                program |-> add_module(p, s, module),
                pos |-> Some(<<s, Len(p.semesters[s].modules) + 1>>)]

_add_module ==
  /\ Len(all_modules(program)) < MaxModules
  /\ \E in \in AddInputs :
       LET r == AddResult(program, in)
       IN  \/ /\ r.outcome # "ok"
              /\ Unchanged("add", r.outcome)
           \/ /\ r.outcome = "ok"
              /\ program' = r.program
              /\ file' = save(program')
              /\ last' = Last("add", "ok", r.pos, "", None)

\* the program is left and started again on the data file
\* an overview that takes the goals off the program as it prints them
_print_overview_consuming ==
  /\ last' = [op |-> "overview", outcome |-> "ok", pos |-> None, call |-> "",
              grade |-> None,
              screen |-> [bar |-> progress_bar(program, 30),
                          grades |-> grade_summary(program),
                          goals |-> goal_descriptions(program),
                          buckets |-> bucket_counts(program)]]
  /\ program' = [program EXCEPT !.goals = <<>>]
  /\ UNCHANGED file

\* the overview printed by run before the menu; last.screen is what it shows
_print_overview ==
  /\ last' = [op |-> "overview", outcome |-> "ok", pos |-> None, call |-> "",
              grade |-> None,
              screen |-> [bar |-> progress_bar(program, 30),
                          grades |-> grade_summary(program),
                          goals |-> goal_descriptions(program),
                          buckets |-> bucket_counts(program)]]
  /\ UNCHANGED <<program, file>>

\* when load raises, main ends with the exception and there is no program
main ==
  LET loaded == load(file)
  IN  /\ program' = IF loaded.ok THEN loaded.value ELSE None
      /\ last' = Last("load", IF loaded.ok THEN "ok" ELSE loaded.error, None, "", None)
      /\ UNCHANGED file

Started(files) ==
  /\ file \in files
  /\ load(file).ok
  /\ program = load(file).value
  /\ last = Last("load", "ok", None, "", None)

Init == Started(InitFiles)

Next == _update_module \/ _add_module \/ main

Spec == Init /\ [][Next]_vars

\* the program started without any module: every module is created by _add_module
InitNew == Started({FileNew})

SpecNew == InitNew /\ [][Next]_vars

\* load on its own, applied to every generated file
InitLoad == Started(LoadFiles)

SpecLoad == InitLoad /\ [][main]_vars

\* main about to run on a file that load accepts or rejects
InitVaried ==
  /\ file \in VariedFiles
  /\ program = None
  /\ last = Last("start", "", None, "", None)

SpecVaried == InitVaried /\ [][main]_vars

\* the overview on its own, on programs that differ in their goals and results
InitGoals == Started(GoalFiles)

NextGoals == _print_overview \/ main

SpecGoals == InitGoals /\ [][NextGoals]_vars

(***************************************************************************)
(* Properties                                                              *)
(***************************************************************************)
PositionSet(p) == {Positions(p)[k] : k \in 1..Len(Positions(p))}

\* the module the last operation acted on
LastModule == ModuleAt(program, Val(last.pos))

Called(call) == last.op = "update" /\ last.outcome = "ok" /\ last.call = call

\* C1: of a module created as Planned, whatever enroll, complete, recognize and
\* reset calls followed: a Completed module is passed, and a Recognized module is
\* passed and has no grade.
C1_StatusImpliesPassed ==
  \A pos \in PositionSet(program) :
    LET m == ModuleAt(program, pos)
    IN  /\ m.status = COMPLETED => m.assessment.passed
        /\ m.status = RECOGNIZED => m.assessment.passed /\ m.assessment.grade = None

\* a module that was created, completed with a grade and then recognized, next to
\* a Completed one
C1_Witness ==
  /\ Called("recognize")
  /\ LastModule.status = RECOGNIZED
  /\ \E pos \in PositionSet(program) :
       /\ ModuleAt(program, pos).status = COMPLETED
       /\ ModuleAt(program, pos).assessment.grade = Some(200)

\* C2: after complete(g), for a module in any status and any grade g, 0 included,
\* the module is Completed, passed, and its grade is g.
C2_AfterComplete ==
  Called("complete") =>
    /\ LastModule.status = COMPLETED
    /\ LastModule.assessment.passed
    /\ LastModule.assessment.grade = last.grade

\* complete(0) has run: the grade 0 is recorded
C2_Witness ==
  /\ Called("complete")
  /\ last.grade = Some(0)
  /\ LastModule.assessment.grade = Some(0)
  /\ LastModule.status = COMPLETED

\* C3: after recognize(), for a module in any status, the module is Recognized,
\* passed, and has no grade, also when it had one.
C3_AfterRecognize ==
  Called("recognize") =>
    /\ LastModule.status = RECOGNIZED
    /\ LastModule.assessment.passed
    /\ LastModule.assessment.grade = None

\* recognize() has run on module A of the current-format file, which came Completed
\* with the grade 2.0
C3_Witness ==
  /\ Called("recognize")
  /\ LastModule.code = "A"
  /\ LastModule.ects = 10
  /\ LastModule.status = RECOGNIZED
  /\ LastModule.assessment.grade = None

\* the ids of all_modules(p), in order
ModuleIds(p) == [k \in 1..Len(all_modules(p)) |-> all_modules(p)[k].id]

\* the ids the module entries of a payload carry, in flattened order: None for a
\* null and for a missing key
FileModuleIds(payload) ==
  Flatten([s \in 1..Len(payload["semesters"]) |->
             [i \in 1..Len(payload["semesters"][s]["modules"]) |->
                Get(payload["semesters"][s]["modules"][i], "id", None)]])

\* C4: after load, every module has an id and no two modules share one.
C4_UniqueIdsAfterLoad ==
  last.op = "load" =>
    LET ids == ModuleIds(program)
    IN  /\ \A k \in 1..Len(ids) : ids[k] # None
        /\ \A j, k \in 1..Len(ids) : j # k => ids[j] # ids[k]

\* a step keeps every id that is set, at the same place of the program
IdsKept ==
  \A s \in 1..Len(program.semesters) :
    \A i \in 1..Len(program.semesters[s].modules) :
      program.semesters[s].modules[i].id # None =>
        /\ s <= Len(program'.semesters)
        /\ i <= Len(program'.semesters[s].modules)
        /\ program'.semesters[s].modules[i].id = program.semesters[s].modules[i].id

\* the id of a module a step adds is the id of no other module
NewIdsFresh ==
  \A s \in 1..Len(program'.semesters) :
    \A i \in 1..Len(program'.semesters[s].modules) :
      (s > Len(program.semesters) \/ i > Len(program.semesters[s].modules)) =>
        /\ program'.semesters[s].modules[i].id # None
        /\ \A other \in PositionSet(program') \ {<<s, i>>} :
             ModuleAt(program', other).id # program'.semesters[s].modules[i].id

\* the id load gave to a module that came without one is the id of no other module
RepairedIdsFresh ==
  last.op = "load" =>
    LET ids == ModuleIds(program)
        given == FileModuleIds(file)
    IN  \A k \in 1..Len(ids) :
          given[k] = None =>
            /\ ids[k] # None
            /\ \A j \in 1..Len(ids) : j # k => ids[j] # ids[k]

\* C5: across loads, status updates, added modules and restarts on the saved file,
\* an id that is set never changes, and the id given to an added or a repaired
\* module is never the id of another module.
C5_IdsStable == [][IdsKept /\ NewIdsFresh]_vars /\ []RepairedIdsFresh

\* a module was added next to one whose id came from the repair: it got the next id
C5_Witness ==
  /\ last.op = "add"
  /\ last.outcome = "ok"
  /\ LastModule.id = Some(2)
  /\ \E pos \in PositionSet(program) :
       ModuleAt(program, pos).code = "A" /\ ModuleAt(program, pos).id = Some(1)

AllIdsSet(p) == \A k \in 1..Len(ModuleIds(p)) : ModuleIds(p)[k] # None

\* C6: for a program whose modules all have an id, load(save(P)) is P: the same
\* name, total_ects, goals, semesters and modules, field by field and in order.
C6_RoundTrip ==
  AllIdsSet(program) =>
    LET loaded == load(save(program))
    IN  /\ loaded.ok
        /\ loaded.value.name = program.name
        /\ loaded.value.total_ects = program.total_ects
        /\ loaded.value.goals = program.goals
        /\ loaded.value.semesters = program.semesters

\* a program with a DurationGoal and a GPAgoal, a module just completed with a
\* grade and another module
C6_Witness ==
  /\ Len(program.goals) = 2
  /\ program.goals[1].kind = "DurationGoal"
  /\ program.goals[2].kind = "GPAgoal"
  /\ Called("complete")
  /\ LastModule.assessment.grade = Some(200)
  /\ Len(all_modules(program)) = 2
  /\ load(save(program)) = Ok(program)

\* the greatest id present in the payload, or 0
MaxPresentId(given) ==
  LET present == {Val(given[k]) : k \in {j \in 1..Len(given) : given[j] # None}}
  IN  IF present = {} THEN 0 ELSE SetMax(present)

\* C7: load keeps every id that is present; with M the greatest present id (0 when
\* none), the modules without id get M+1, M+2, ... in flattened order.
C7_IdRepair ==
  last.op = "load" =>
    LET ids == ModuleIds(program)
        given == FileModuleIds(file)
        absent_upto(k) == Cardinality({j \in 1..k : given[j] = None})
    IN  /\ Len(ids) = Len(given)
        /\ \A k \in 1..Len(ids) :
             ids[k] = IF given[k] # None THEN given[k]
                      ELSE Some(MaxPresentId(given) + absent_upto(k))

\* the file named the ids 5 and 7 for two of four modules: the others got 8 and 9
C7_Witness ==
  /\ last.op = "load"
  /\ FileModuleIds(file) = <<None, Some(5), Some(7), None>>
  /\ ModuleIds(program) = <<Some(8), Some(5), Some(7), Some(9)>>

RECURSIVE SumOver(_, _)
\* the sum of f[x] over the x of a finite set
SumOver(S, f) ==
  IF S = {} THEN 0
  ELSE LET x == CHOOSE x \in S : TRUE IN f[x] + SumOver(S \ {x}, f)

\* h is the quotient n / d rounded to a nearest whole number (hundredths of a grade)
IsRounded(h, n, d) ==
  LET diff == h * d - n
  IN  d > 0 /\ 2 * (IF diff < 0 THEN 0 - diff ELSE diff) <= d

\* the places in all_modules(p) of the Completed modules with a grade
GradedCompleted(p) ==
  {k \in 1..Len(all_modules(p)) :
     /\ all_modules(p)[k].status = COMPLETED
     /\ all_modules(p)[k].assessment.grade # None}

GradedEcts(p) ==
  SumOver(GradedCompleted(p), [k \in GradedCompleted(p) |-> all_modules(p)[k].ects])

GradedPoints(p) ==
  SumOver(GradedCompleted(p),
          [k \in GradedCompleted(p) |->
             Val(all_modules(p)[k].assessment.grade) * all_modules(p)[k].ects])

\* C8 as stated: current_gpa is None exactly when no Completed module has a grade;
\* otherwise it is sum(grade * ects) / sum(ects) over these modules, rounded to 2
\* decimals.
C8_GpaNoneIffNoGrade ==
  LET gpa == snapshot(program).current_gpa
  IN  /\ gpa = None <=> GradedCompleted(program) = {}
      /\ gpa # None => IsRounded(Val(gpa), GradedPoints(program), GradedEcts(program))

\* C8 as amended: current_gpa is None exactly when no Completed module has a
\* grade or the ects of the Completed modules with a grade sum to 0; otherwise it
\* is sum(grade * ects) / sum(ects) over these modules, rounded to 2 decimals.
C8_GpaNoneIffNoGradedEcts ==
  LET gpa == snapshot(program).current_gpa
  IN  /\ gpa = None <=> (GradedCompleted(program) = {} \/ GradedEcts(program) = 0)
      /\ gpa # None => IsRounded(Val(gpa), GradedPoints(program), GradedEcts(program))

\* grades 2.0 with 10 ects and 3.0 with 5 ects: the GPA is 2.33
C8_Witness ==
  /\ GradedCompleted(program) = {1, 2}
  /\ GradedPoints(program) = 200 * 10 + 300 * 5
  /\ GradedEcts(program) = 15
  /\ snapshot(program).current_gpa = Some(233)

\* the places in all_modules(p) of the Completed and the Recognized modules
Passed(p) ==
  {k \in 1..Len(all_modules(p)) : all_modules(p)[k].status \in {COMPLETED, RECOGNIZED}}

PassedEcts(p) == SumOver(Passed(p), [k \in Passed(p) |-> all_modules(p)[k].ects])

\* the program without the module at pos
WithoutModule(p, pos) ==
  [p EXCEPT !.semesters[pos[1]].modules =
     [i \in 1..(Len(@) - 1) |-> IF i < pos[2] THEN @[i] ELSE @[i + 1]]]

EctsValues == {0, 5, 10}

\* C9: ects_completed is the sum of the ects of the Completed and the Recognized
\* modules; it stays the same when a Planned or Enrolled module is added, is
\* removed, or gets other ects.
C9_EctsCompleted ==
  LET ects_completed == snapshot(program).ects_completed
  IN  /\ ects_completed = PassedEcts(program)
      /\ \A pos \in PositionSet(program) :
           ModuleAt(program, pos).status \in {PLANNED, ENROLLED} =>
             /\ snapshot(WithoutModule(program, pos)).ects_completed = ects_completed
             /\ \A e \in EctsValues :
                  snapshot(WithModule(program, pos,
                                      [ModuleAt(program, pos) EXCEPT !.ects = e])).ects_completed
                    = ects_completed
      /\ \A s \in 1..Len(program.semesters), e \in EctsValues :
           LET m == NewModule(None, "N", "Titel", e, NewAssessment("Klausur", 100))
           IN  /\ snapshot(add_module(program, s, m)).ects_completed = ects_completed
               /\ snapshot(add_module(program, s, enroll(m))).ects_completed = ects_completed

\* a Recognized module of 5 ects next to an Enrolled module of 10 ects that is passed
C9_Witness ==
  /\ snapshot(program).ects_completed = 5
  /\ \E pos \in PositionSet(program) :
       ModuleAt(program, pos).status = RECOGNIZED /\ ModuleAt(program, pos).ects = 5
  /\ \E pos \in PositionSet(program) :
       /\ ModuleAt(program, pos).status = ENROLLED
       /\ ModuleAt(program, pos).ects = 10
       /\ ModuleAt(program, pos).assessment.passed

RECURSIVE CountCompleted(_)
\* how many of the semesters have a module and no Planned or Enrolled module
CountCompleted(semesters) ==
  IF semesters = <<>> THEN 0
  ELSE LET modules == Head(semesters).modules
           open == {i \in 1..Len(modules) : modules[i].status \in {PLANNED, ENROLLED}}
       IN  (IF Len(modules) > 0 /\ open = {} THEN 1 ELSE 0) + CountCompleted(Tail(semesters))

\* C10: completed_semesters is the number of semesters that have at least one
\* module and only Completed or Recognized modules; an empty semester never counts.
C10_CompletedSemesters ==
  LET n == snapshot(program).completed_semesters
  IN  /\ n = CountCompleted(program.semesters)
      /\ n <= Cardinality({s \in 1..Len(program.semesters) :
                             Len(program.semesters[s].modules) > 0})

\* one semester with a Completed and a Recognized module counts, the empty one not
C10_Witness ==
  /\ snapshot(program).completed_semesters = 1
  /\ Len(program.semesters) = 2
  /\ program.semesters[2].modules = <<>>
  /\ Len(program.semesters[1].modules) = 2
  /\ program.semesters[1].modules[1].status = COMPLETED
  /\ program.semesters[1].modules[2].status = RECOGNIZED

\* the last operation was a status update or an add-module that went through
Wrote == last.op \in {"update", "add"} /\ last.outcome = "ok"

\* C11: after every status update or add-module that went through, the data file
\* holds the serialization of the whole in-memory program; and at every menu
\* prompt loading the data file gives the in-memory program, so no mutation is
\* left unsaved.
C11_SaveOnWrite ==
  /\ Wrote => file = save(program)
  /\ load(file) = Ok(program)

\* a module was added to the second semester and the file holds it
C11_Witness ==
  /\ last.op = "add"
  /\ last.outcome = "ok"
  /\ Val(last.pos)[1] = 2
  /\ file = save(program)
  /\ Len(file.semesters[2].modules) = 1
  /\ file.semesters[2].modules[1].code = "C"

\* the codes of the modules of all semesters, in the order of all_modules
ModuleCodes(p) == [k \in 1..Len(all_modules(p)) |-> all_modules(p)[k].code]

CodesDistinct(p) ==
  \A j, k \in 1..Len(ModuleCodes(p)) : j # k => ModuleCodes(p)[j] # ModuleCodes(p)[k]

\* C12: the module codes stay pairwise distinct over the whole program whatever
\* modules are added, because an add-module whose code, in upper case, is the code
\* of a module of any semester is rejected and leaves the program as it was.
C12_CodesUnique ==
  /\ CodesDistinct(program)
  /\ \A in \in AddInputs :
       (\E k \in 1..Len(ModuleCodes(program)) : ModuleCodes(program)[k] = Upper(in.code))
         => /\ AddResult(program, in).outcome # "ok"
            /\ AddResult(program, in).program = program

\* module C was added, and typing "c" again is rejected
C12_Witness ==
  /\ last.op = "add"
  /\ last.outcome = "ok"
  /\ LastModule.code = "C"
  /\ Len(all_modules(program)) = 2
  /\ CodesDistinct(program)
  /\ AddResult(program, GoodAnswers).outcome = "error"

\* the file has a goal entry whose type tag is neither "duration" nor "gpa"
HasUnknownGoal(payload) ==
  \E i \in 1..Len(Get(payload, "goals", <<>>)) :
    \/ "type" \notin DOMAIN payload["goals"][i]
    \/ payload["goals"][i]["type"] \notin {"duration", "gpa"}

\* the file has a module entry whose status is none of the four status strings
HasUnknownStatus(payload) ==
  \E s \in 1..Len(payload["semesters"]) :
    \E i \in 1..Len(payload["semesters"][s]["modules"]) :
      payload["semesters"][s]["modules"][i]["status"]
        \notin {"planned", "enrolled", "completed", "recognized"}

\* the file has a semester entry with neither "semester" nor "number"
HasKeylessSemester(payload) ==
  \E s \in 1..Len(payload["semesters"]) :
    DOMAIN payload["semesters"][s] \cap {"semester", "number"} = {}

\* C13: load ends with an error and gives no program whenever the file has a goal
\* with an unknown type tag, a module with an unknown status, or a semester entry
\* with neither the current nor the legacy term-index field.
C13_LoadRejects ==
  (/\ last.op = "load"
   /\ HasUnknownGoal(file) \/ HasUnknownStatus(file) \/ HasKeylessSemester(file))
    => /\ last.outcome \in {"ValueError", "KeyError"}
       /\ program = None

\* a file whose only defect is the status "done" was rejected
C13_Witness ==
  /\ last.op = "load"
  /\ HasUnknownStatus(file)
  /\ ~HasUnknownGoal(file)
  /\ ~HasKeylessSemester(file)
  /\ file.semesters[1].modules[1].status = "done"
  /\ last.outcome = "ValueError"
  /\ program = None

\* every semester entry has exactly one of the two term-index fields, with a number
UsesOneKey(payload) ==
  \A s \in 1..Len(payload["semesters"]) :
    LET entry == payload["semesters"][s]
        keys == DOMAIN entry \cap {"semester", "number"}
    IN  /\ Cardinality(keys) = 1
        /\ \A k \in keys : entry[k] # None

\* the file with "semester" in the place of every "number"
InCurrentFormat(payload) ==
  [payload EXCEPT !.semesters =
     [s \in 1..Len(payload["semesters"]) |->
        IF "number" \in DOMAIN payload["semesters"][s]
        THEN [semester |-> payload["semesters"][s]["number"],
              modules |-> payload["semesters"][s]["modules"]]
        ELSE payload["semesters"][s]]]

\* C14: a file whose semester entries carry "number" in the place of "semester",
\* in any subset of the entries, loads as the file with "semester" throughout does.
C14_LegacyKey ==
  (last.op = "load" /\ UsesOneKey(file))
    => LET current == load(InCurrentFormat(file))
       IN  IF current.ok
           THEN last.outcome = "ok" /\ program = current.value
           ELSE last.outcome = current.error /\ program = None

\* the first entry under "number" and the second under "semester", loaded
C14_Witness ==
  /\ last.op = "load"
  /\ last.outcome = "ok"
  /\ "number" \in DOMAIN file.semesters[1]
  /\ "semester" \in DOMAIN file.semesters[2]
  /\ InCurrentFormat(file) # file
  /\ program = load(InCurrentFormat(file)).value
  /\ program.semesters[1].semester = 1
  /\ program.semesters[2].semester = 2


\* C15: reset leaves the module Planned, not passed and without a grade, whatever
\* its status and its assessment were.
C15_AfterReset ==
  /\ \A pos \in PositionSet(program) :
       LET m == reset(ModuleAt(program, pos))
       IN  /\ m.status = PLANNED
           /\ m.assessment.passed = FALSE
           /\ m.assessment.grade = None
  /\ Called("reset")
       => /\ LastModule.status = PLANNED
          /\ LastModule.assessment.passed = FALSE
          /\ LastModule.assessment.grade = None

\* module A of 10 ects was reset while module B is still Completed with its grade
C15_Witness ==
  /\ Called("reset")
  /\ LastModule.code = "A"
  /\ LastModule.ects = 10
  /\ LastModule.status = PLANNED
  /\ ~LastModule.assessment.passed
  /\ LastModule.assessment.grade = None
  /\ \E pos \in PositionSet(program) :
       /\ ModuleAt(program, pos).status = COMPLETED
       /\ ModuleAt(program, pos).assessment.grade = Some(300)

\* C16: enroll is accepted in every status; it sets the status to Enrolled and
\* leaves passed, grade, id, code, title and ects as they were.
C16_EnrollFrame ==
  /\ \A pos \in PositionSet(program) :
       LET m == ModuleAt(program, pos)
           e == enroll(m)
       IN  /\ e.status = ENROLLED
           /\ e.assessment.passed = m.assessment.passed
           /\ e.assessment.grade = m.assessment.grade
           /\ e.id = m.id
           /\ e.code = m.code
           /\ e.title = m.title
           /\ e.ects = m.ects
  /\ Called("enroll") => LastModule.status = ENROLLED

\* a module that was Completed with the grade 2.0 was enrolled and kept its result
C16_Witness ==
  /\ Called("enroll")
  /\ LastModule.status = ENROLLED
  /\ LastModule.assessment.passed
  /\ LastModule.assessment.grade = Some(200)
  /\ LastModule.id = Some(5)

\* C17: of a module created as Planned, whatever enroll, complete, recognize and
\* reset calls followed: the grade is set only if passed is true.
C17_GradeImpliesPassed ==
  \A pos \in PositionSet(program) :
    ModuleAt(program, pos).assessment.grade # None
      => ModuleAt(program, pos).assessment.passed

\* one added module was completed with a grade and then reset, another one still
\* has its grade
C17_Witness ==
  /\ Called("reset")
  /\ LastModule.assessment.grade = None
  /\ ~LastModule.assessment.passed
  /\ \E pos \in PositionSet(program) :
       /\ ModuleAt(program, pos).assessment.grade = Some(200)
       /\ ModuleAt(program, pos).assessment.passed

\* C18: a DurationGoal over p planned semesters, on a snapshot with c completed
\* semesters: is_met exactly when c <= p; progress is 0 when c = 0 or p = 0,
\* otherwise c / p cut to the range from 0 to 1; it is never outside that range.
C18_DurationGoal ==
  \A i \in 1..Len(program.goals) :
    program.goals[i].kind = "DurationGoal"
      => LET goal == program.goals[i]
             context == snapshot(program)
             p == goal.planned_semesters
             c == context.completed_semesters
             ratio == progress(goal, context)
         IN  /\ is_met(goal, context) <=> c <= p
             /\ ratio.ok
             /\ ratio.value[2] > 0
             /\ 0 <= ratio.value[1] /\ ratio.value[1] <= ratio.value[2]
             /\ (c = 0 \/ p = 0) => ratio.value[1] = 0
             /\ (c > 0 /\ p > 0 /\ c >= p) => ratio.value[1] = ratio.value[2]
             /\ (c > 0 /\ p > 0 /\ c < p) => ratio.value[1] * p = c * ratio.value[2]
             /\ last.op = "overview"
                  => last.screen.goals[i].met = (IF c <= p THEN "erfuellt" ELSE "offen")

\* 3 planned and 3 completed semesters: the goal is met and shown at 100 percent
C18_Witness ==
  /\ last.op = "overview"
  /\ program.goals[1] = DurationGoal(3, "In der Zeit bleiben")
  /\ snapshot(program).completed_semesters = 3
  /\ is_met(program.goals[1], snapshot(program))
  /\ progress(program.goals[1], snapshot(program)) = Ok(One)
  /\ last.screen.goals[1].met = "erfuellt"
  /\ last.screen.goals[1].percent = Some(100)

\* C19: a GPAgoal with the limit m, on a snapshot with the average gpa: is_met
\* exactly when gpa is set and gpa <= m; progress is 0 when gpa is None or 0,
\* otherwise m / gpa cut to the range from 0 to 1; no evaluation raises.
C19_GPAgoal ==
  \A i \in 1..Len(program.goals) :
    program.goals[i].kind = "GPAgoal"
      => LET goal == program.goals[i]
             context == snapshot(program)
             m == goal.max_gpa
             gpa == context.current_gpa
             ratio == progress(goal, context)
         IN  /\ is_met(goal, context) <=> (gpa # None /\ Val(gpa) <= m)
             /\ ratio.ok
             /\ ratio.value[2] > 0
             /\ 0 <= ratio.value[1] /\ ratio.value[1] <= ratio.value[2]
             /\ (gpa = None \/ gpa = Some(0)) => ratio.value[1] = 0
             /\ (gpa # None /\ gpa # Some(0) /\ m >= Val(gpa))
                  => ratio.value[1] = ratio.value[2]
             /\ (gpa # None /\ gpa # Some(0) /\ m < Val(gpa))
                  => ratio.value[1] * Val(gpa) = m * ratio.value[2]
             /\ last.op = "overview"
                  => last.screen.goals[i].met
                       = (IF gpa # None /\ Val(gpa) <= m THEN "erfuellt" ELSE "offen")

\* the limit 2.5 and no grade yet: the goal is open and shown at 0 percent
C19_Witness ==
  /\ last.op = "overview"
  /\ program.goals[2] = GPAgoal(250, "Schnitt halten")
  /\ snapshot(program).current_gpa = None
  /\ ~is_met(program.goals[2], snapshot(program))
  /\ progress(program.goals[2], snapshot(program)) = Ok(Zero)
  /\ last.screen.goals[2].met = "offen"
  /\ last.screen.goals[2].percent = Some(0)

\* C20: the overview, which takes a snapshot and evaluates is_met and progress of
\* every goal, leaves the program (name, total_ects, semesters, goals and every
\* field of every module) and the data file as they were.
C20_ReadOnly ==
  [][last'.op = "overview" => (program' = program /\ file' = file)]_vars

\* the overview was printed for a program with two Completed modules and two goals
C20_Witness ==
  /\ last.op = "overview"
  /\ last.screen.buckets.Abgeschlossen = 2
  /\ last.screen.buckets.Geplant = 1
  /\ last.screen.grades = Some(250)
  /\ Len(last.screen.goals) = 2
  /\ Len(program.goals) = 2
  /\ load(file) = Ok(program)

\* C21: a status update or an add-module that fails validation (unknown module id
\* or code, invalid status choice, non-numeric grade, unknown semester, duplicate
\* or empty code, empty title, non-positive ects or max_points) or is cancelled
\* with "0" at any prompt leaves the in-memory program and the data file exactly
\* as they were before it started.
C21_FailureLeavesState ==
  [][(last'.op \in {"update", "add"} /\ last'.outcome \in {"cancel", "error"})
       => (program' = program /\ file' = file)]_vars

\* an add-module was rejected on the legacy file, which is still in its old format
C21_Witness ==
  /\ last.op = "add"
  /\ last.outcome = "error"
  /\ file = FileLegacy
  /\ file # save(program)
  /\ load(file) = Ok(program)

\* the modules of a sequence, as a set
Range(s) == {s[i] : i \in 1..Len(s)}

\* C22: a snapshot classifies a module by its present status alone.  An Enrolled
\* module, also one that still holds passed = true and a grade from the time it
\* was Completed, counts in ects_enrolled, not in ects_completed and not in
\* current_gpa; the module a transition acted on is in the list of its new status.
C22_SnapshotByStatus ==
  LET context == snapshot(program)
  IN  /\ \A pos \in PositionSet(program) :
           LET m == ModuleAt(program, pos)
               rest == snapshot(WithoutModule(program, pos))
           IN  m.status = ENROLLED
                 => /\ m \in Range(context.enrolled_modules)
                    /\ m \notin Range(context.completed_modules)
                    /\ context.ects_enrolled = rest.ects_enrolled + m.ects
                    /\ context.ects_completed = rest.ects_completed
                    /\ context.current_gpa = rest.current_gpa
      /\ (last.op = "update" /\ last.outcome = "ok")
           => /\ LastModule.status = PLANNED
                   <=> LastModule \in Range(context.planned_modules)
              /\ LastModule.status = ENROLLED
                   <=> LastModule \in Range(context.enrolled_modules)
              /\ LastModule.status = COMPLETED
                   <=> LastModule \in Range(context.completed_modules)
              /\ LastModule.status = RECOGNIZED
                   <=> LastModule \in Range(context.recognized_modules)

\* module A of 10 ects, Completed with 2.0, was enrolled: it keeps its result, its
\* ects count as enrolled, and the average is the 3.0 of module B alone
C22_Witness ==
  /\ Called("enroll")
  /\ LastModule.code = "A"
  /\ LastModule.assessment.passed
  /\ LastModule.assessment.grade = Some(200)
  /\ snapshot(program).ects_enrolled = 10
  /\ snapshot(program).ects_completed = 5
  /\ snapshot(program).current_gpa = Some(300)

\* the place in the flattened list of the module at pos: after all modules of the
\* semesters before it and after the modules inserted before it in its semester
Place(p, pos) ==
  SeqSum([s \in 1..(pos[1] - 1) |-> Len(p.semesters[s].modules)]) + pos[2]

\* list holds, in rising order of their places, the modules of the flattened list
\* whose status is status
IsBucketOf(list, p, status) ==
  LET modules == snapshot(p).modules
      places == {k \in 1..Len(modules) : modules[k].status = status}
  IN  /\ Len(list) = Cardinality(places)
      /\ \A k \in places :
           list[Cardinality({j \in places : j <= k})] = modules[k]

\* C23: the four status lists of a snapshot partition the flattened module list:
\* every module is in exactly the list of its status, the lengths add up to the
\* number of modules, and each list keeps the flattened order (semester order,
\* then insertion order).
C23_BucketsPartition ==
  LET context == snapshot(program)
  IN  /\ Len(context.modules) = Cardinality(PositionSet(program))
      /\ \A pos \in PositionSet(program) :
           /\ context.modules[Place(program, pos)] = ModuleAt(program, pos)
           /\ ModuleAt(program, pos).status \in {PLANNED, ENROLLED, COMPLETED, RECOGNIZED}
      /\ IsBucketOf(context.completed_modules, program, COMPLETED)
      /\ IsBucketOf(context.enrolled_modules, program, ENROLLED)
      /\ IsBucketOf(context.planned_modules, program, PLANNED)
      /\ IsBucketOf(context.recognized_modules, program, RECOGNIZED)
      /\ Len(context.completed_modules) + Len(context.enrolled_modules)
           + Len(context.planned_modules) + Len(context.recognized_modules)
           = Len(context.modules)

\* module C was added to the second semester: the planned list is A, then C
C23_Witness ==
  /\ last.op = "add"
  /\ last.outcome = "ok"
  /\ Val(last.pos) = <<2, 1>>
  /\ Len(snapshot(program).planned_modules) = 2
  /\ snapshot(program).planned_modules[1].code = "A"
  /\ snapshot(program).planned_modules[2].code = "C"
  /\ snapshot(program).completed_modules = <<>>

\* the value a field of a semester entry supplies: None when the key is absent or null
Supplied(entry, key) == IF key \in DOMAIN entry THEN entry[key] ELSE None

\* the term index by the ordered fallback: the current field, then the legacy field
TermIndex(entry) ==
  IF Supplied(entry, "semester") # None THEN Supplied(entry, "semester")
  ELSE Supplied(entry, "number")

\* C24: the term index of a semester entry is the value of "semester" when it has
\* one (whatever "number" holds), otherwise the value of "number" when it has one;
\* load raises a structural error only when neither field supplies a value, and
\* it never puts a default in the place of the term index.
C24_OrderedFallback ==
  (last.op = "load" /\ ~HasUnknownGoal(file) /\ ~HasUnknownStatus(file))
    => IF \E s \in 1..Len(file.semesters) : TermIndex(file.semesters[s]) = None
       THEN last.outcome = "KeyError" /\ program = None
       ELSE /\ last.outcome = "ok"
            /\ Len(program.semesters) = Len(file.semesters)
            /\ \A s \in 1..Len(file.semesters) :
                 program.semesters[s].semester = Val(TermIndex(file.semesters[s]))

====
